---- MODULE Spec2Model ----
(***************************************************************************)
(* A model of grpc-json (package grpcj): Serve discovers the methods of a  *)
(* service by reflection, registers one HTTP/JSON endpoint per method on a *)
(* ServeMux, optionally runs a health probe, and shuts down gracefully on  *)
(* a termination signal.  grpcjHandler decodes a request, calls the method *)
(* under a deadline and encodes the result.                                *)
(*                                                                         *)
(* Spec            Serve of main.go with one client connection             *)
(* SpecConcurrent  the same Serve with two connections at once             *)
(* SpecEarly       the earlier revision of Serve (part_001)                *)
(* SpecCodec       the gateway codec MarshalerGOGO / UnmarshalerGOGO       *)
(*                 (part_000) applied to bounded values and documents      *)
(***************************************************************************)
EXTENDS Integers, Sequences, FiniteSets, TLC

VARIABLES
    args,              \* the arguments of the Serve call (service options as given)
    httpServerOpts,    \* *serverOpts built by applyOptions, mutated by reverse
    serve_pc,          \* position of the goroutine running Serve
    methodIdx,         \* loop variable i of the discovery loop
    pendingEndpoints,  \* keys of endpointToMethodMap the range loop has not visited
    mux,               \* http.ServeMux: pattern -> registered handler
    probe_pc,          \* position of the health probe goroutine
    probeErr,          \* err of the healthcheckFunc call in progress
    healthcheckStatus, \* the package-level variable
    staleStatus,       \* values of healthcheckStatus an unsynchronised read may still see
    lastProbe,         \* result of the most recent completed probe iteration
    exitChan,          \* number of signals buffered in exitChan (capacity 1)
    shut_pc,           \* position of the graceful-shutdown goroutine
    inShutdown,        \* http.Server: Shutdown has been called
    listening,         \* http.Server: the listener is open and accepting
    idleConnsClosed,   \* the channel idleConnsClosed has been closed
    reRaised,          \* the exit signal has been re-emitted to the process
    req,               \* per client connection: the request being served
    codec              \* a use of the gateway codec: its input, result and position

vars == <<args, httpServerOpts, serve_pc, methodIdx, pendingEndpoints, mux,
          probe_pc, probeErr, healthcheckStatus, staleStatus, lastProbe,
          exitChan, shut_pc, inShutdown, listening, idleConnsClosed, reRaised, req,
          codec>>

regVars    == <<httpServerOpts, methodIdx, pendingEndpoints, mux>>
probeVars  == <<probe_pc, probeErr, healthcheckStatus, staleStatus, lastProbe>>
shutVars   == <<exitChan, shut_pc, inShutdown, idleConnsClosed, reRaised>>

---------------------------------------------------------------------------
(* Bounds and program constants *)

\* largest number a request payload carries in a field
MaxNum == 1

StatusOK == 200
StatusBadRequest == 400
StatusUnauthorized == 401
StatusNotFound == 404
StatusInternalServerError == 500
StatusNotImplemented == 501
\* no status line was written (the handler panicked, the connection is dropped)
NoStatus == 0

---------------------------------------------------------------------------
(* The service under test: the methods reflect reports for the service     *)
(* instance, in reflect's (lexical) order.  Add and Subtract have the RPC  *)
(* shape (context, request pointer) -> (response pointer, error); Close    *)
(* takes no arguments and returns nothing.                                 *)

ServiceMethods == <<"Add", "Close", "Subtract">>

\* number of inputs of the bound method value (methodFunc.Type().NumIn())
NumIn(m) == IF m = "Close" THEN 0 ELSE 2

\* JSON (proto) field names of the request message of a method
RequestFields(m) == {"num_one", "num_two"}

\* the Go field a JSON (proto) field name is stored in
GoField(k) == CASE k = "num_one" -> "NumOne"
                [] k = "num_two" -> "NumTwo"
                [] k = "sum" -> "Sum"
                [] k = "difference" -> "Difference"
                [] OTHER -> k

\* the JSON (proto) name of a Go field
OrigName(f) == CASE f = "NumOne" -> "num_one"
                 [] f = "NumTwo" -> "num_two"
                 [] f = "Sum" -> "sum"
                 [] f = "Difference" -> "difference"
                 [] OTHER -> f

\* the example method Add: resp.Sum = req.NumOne + req.NumTwo
Add(m) == "Sum" :> (m["NumOne"] + m["NumTwo"])

\* the second method of the example service
Subtract(m) == "Difference" :> (m["NumOne"] - m["NumTwo"])

\* methodFunc.Call(methodArgs) when the method returns a response
CallMethod(name, m) == IF name = "Add" THEN Add(m) ELSE Subtract(m)

---------------------------------------------------------------------------
(* Names *)

\* reflect's Method(i).Name: the bare method name
MethodName(m) == m

\* runtime.FuncForPC(reflect.ValueOf(method).Pointer()).Name() of a method
\* value: the package-qualified symbol of the method-value wrapper
FuncForPCName(m) == "main.(*server)." \o m \o "-fm"

EmptyMap == [k \in {} |-> "none"]

---------------------------------------------------------------------------
(* Options: applyOptions and the option functions *)

\* the client connections of the explorations: one, or two at once
OneClient == {"c1"}
TwoClients == {"c1", "c2"}

\* the connections the server is serving
Clients == DOMAIN req

HealthcheckEndpoint == "/healthz"

\* the Serve calls explored: AllowedMethods, AddEndpoints, Middleware and
\* HealthCheck each given or not
AllowedChoices == {<<>>, <<"Add">>}
EndpointChoices == {EmptyMap, "/Sum" :> "Add", "/Add" :> "Subtract"}
MiddlewareChoices == {<<>>, <<"Logger", "BasicAuth">>, <<"BasicAuth", "Logger">>}

Scenarios ==
    [allowed : AllowedChoices, endpoints : EndpointChoices,
     middleware : MiddlewareChoices, health : BOOLEAN]

\* AllowedMethods: the name of each listed method value is appended
AllowedMethods(allowedMethods) ==
    [i \in 1..Len(allowedMethods) |-> FuncForPCName(allowedMethods[i])]

\* applyOptions: the defaults, then every option applied
applyOptions(a) ==
    [allowedMethods      |-> AllowedMethods(a.allowed),
     endpointToMethodMap |-> a.endpoints,
     middlewareHandlers  |-> a.middleware,
     healthcheckFunc     |-> a.health,
     healthcheckEndpoint |-> IF a.health THEN HealthcheckEndpoint ELSE ""]

\* serverOpts.isAllowedMethod
isAllowedMethod(s, methodName) ==
    \/ Len(s.allowedMethods) < 1
    \/ \E i \in 1..Len(s.allowedMethods) : methodName = s.allowedMethods[i]

\* reverse: the slice reversed in place
reverse(s) == [i \in 1..Len(s) |-> s[Len(s) + 1 - i]]

\* applyMiddlewareTo without the wrapping order of the loop: the handlers
\* are wrapped from the last of the slice to the first
applyMiddlewareToBackwards(handler, middlewareHandlers) ==
    [handler EXCEPT !.chain = middlewareHandlers]

\* applyMiddlewareTo: next = handler; each middleware of the slice in turn wraps
\* next, so the last of the slice becomes the outermost handler.  A handler's
\* chain lists its middleware from the outermost to the innermost.
RECURSIVE applyMiddlewareTo(_, _)
applyMiddlewareTo(handler, middlewareHandlers) ==
    IF middlewareHandlers = <<>> THEN handler
    ELSE applyMiddlewareTo(
             [handler EXCEPT !.chain = <<Head(middlewareHandlers)>> \o @],
             Tail(middlewareHandlers))

\* grpcjHandler: the handler closure of one method
grpcjHandler(methodFunc, origin) ==
    [kind |-> "rpc", method |-> methodFunc, chain |-> <<>>, origin |-> origin]

\* the health handler registered like an RPC endpoint, behind the middleware
healthHandlerBehindMiddleware ==
    [kind |-> "health", method |-> "none",
     chain |-> reverse(httpServerOpts.middlewareHandlers), origin |-> "health"]

\* the handler of the health endpoint: the closure given to mux.HandleFunc as
\* it is, wrapped by no middleware
healthHandler ==
    [kind |-> "health", method |-> "none", chain |-> <<>>, origin |-> "health"]

\* ServeMux.HandleFunc that replaces an existing registration
HandleFuncOverwrite(m, pattern, handler) ==
    [ok |-> TRUE, mux |-> (pattern :> handler) @@ m]

\* ServeMux.HandleFunc: panics when the pattern is already registered
HandleFunc(m, pattern, handler) ==
    IF pattern \in DOMAIN m
    THEN [ok |-> FALSE, mux |-> m]
    ELSE [ok |-> TRUE, mux |-> (pattern :> handler) @@ m]

EmptyNum == [k \in {} |-> 0]

NoPayload == [kind |-> "unread", obj |-> EmptyNum]

IdleReq ==
    [pc |-> "idle", path |-> "", verb |-> "", payload |-> NoPayload,
     auth |-> "unchecked", kind |-> "none", route |-> "none", trace |-> <<>>,
     ctx |-> "none", calls |-> 0, msg |-> EmptyNum, outcome |-> "",
     status |-> NoStatus, ctype |-> "", body |-> "", json |-> EmptyNum,
     probeAt |-> "none"]

\* a Go value handed to the codec, or the destination handed to it: its base
\* type, the number of pointers around it, which of them (counted from the
\* outside) is nil if any, and the content by base type
GoValue(base, ptrs, nilAt, n, m, msg) ==
    [base |-> base, ptrs |-> ptrs, nilAt |-> nilAt, n |-> n, m |-> m, msg |-> msg]

\* a JSON document: its kind and, by kind, the number in tenths, the
\* characters of the string, the members of the object by key text, or the
\* fields of an encoded message by name
JSONDoc(kind, num, str, obj, fields, strs) ==
    [kind |-> kind, num |-> num, str |-> str, obj |-> obj, fields |-> fields,
     strs |-> strs]

EmptyText == [k \in {} |-> <<>>]
NoDoc == JSONDoc("none", 0, <<>>, EmptyNum, EmptyNum, EmptyText)
NoValue == GoValue("none", 0, 0, 0, EmptyNum, EmptyNum)

\* no use of the codec is under way
CodecOff ==
    [pc |-> "off", first |-> "none", enumsAsInts |-> TRUE, inValue |-> NoValue,
     inDoc |-> NoDoc, value |-> NoValue, doc |-> NoDoc, encodeErr |-> "",
     decodeErr |-> "", quoted |-> <<>>, done |-> <<>>]

\* the state in which Serve(service, options...) starts, with the client
\* connections that are going to be made
ServeStart(a, conns) ==
    /\ args = a
    /\ httpServerOpts = applyOptions(a)
    /\ serve_pc = "start"
    /\ methodIdx = 1
    /\ pendingEndpoints = DOMAIN a.endpoints
    /\ mux = [p \in {} |-> grpcjHandler("none", "none")]
    /\ probe_pc = "off"
    /\ probeErr = FALSE
    /\ healthcheckStatus = StatusOK
    /\ staleStatus = {}
    /\ lastProbe = "none"
    /\ exitChan = 0
    /\ shut_pc = "off"
    /\ inShutdown = FALSE
    /\ listening = FALSE
    /\ idleConnsClosed = FALSE
    /\ reRaised = FALSE
    /\ req = [c \in conns |-> IdleReq]

Init == codec = CodecOff /\ \E a \in Scenarios : ServeStart(a, OneClient)

---------------------------------------------------------------------------
(* Serve: registration *)

\* Serve, line 204: reverse(httpServerOpts.middlewareHandlers)
ServeReverse ==
    /\ serve_pc = "start"
    /\ httpServerOpts' =
           [httpServerOpts EXCEPT !.middlewareHandlers = reverse(@)]
    /\ serve_pc' = "discover"
    /\ UNCHANGED <<args, codec, methodIdx, pendingEndpoints, mux, probeVars, shutVars,
                   listening, req>>

\* Serve, lines 208-215: one iteration of the discovery loop
ServeDiscover ==
    /\ serve_pc = "discover"
    /\ methodIdx <= Len(ServiceMethods)
    /\ LET methodName == MethodName(ServiceMethods[methodIdx])
           handler == grpcjHandler(ServiceMethods[methodIdx], "discovered")
           r == HandleFunc(mux, "/" \o methodName,
                    applyMiddlewareTo(handler, httpServerOpts.middlewareHandlers))
       IN  IF isAllowedMethod(httpServerOpts, methodName)
           THEN /\ mux' = r.mux
                /\ serve_pc' = IF r.ok THEN "discover" ELSE "panic"
           ELSE UNCHANGED <<mux, serve_pc>>
    /\ methodIdx' = methodIdx + 1
    /\ UNCHANGED <<args, codec, httpServerOpts, pendingEndpoints, probeVars, shutVars,
                   listening, req>>

\* Serve: the discovery loop ends
ServeDiscoverDone ==
    /\ serve_pc = "discover"
    /\ methodIdx > Len(ServiceMethods)
    /\ serve_pc' = "explicit"
    /\ UNCHANGED <<args, codec, regVars, probeVars, shutVars, listening, req>>

\* Serve, lines 217-224: one iteration of the range over endpointToMethodMap
\* (Go visits the keys in no particular order)
ServeExplicit ==
    /\ serve_pc = "explicit"
    /\ \E endpoint \in pendingEndpoints :
        LET method == httpServerOpts.endpointToMethodMap[endpoint]
            methodName == FuncForPCName(method)
            handler == grpcjHandler(method, "explicit")
            r == HandleFunc(mux, endpoint,
                     applyMiddlewareTo(handler, httpServerOpts.middlewareHandlers))
        IN  /\ IF isAllowedMethod(httpServerOpts, methodName)
               THEN /\ mux' = r.mux
                    /\ serve_pc' = IF r.ok THEN "explicit" ELSE "panic"
               ELSE UNCHANGED <<mux, serve_pc>>
            /\ pendingEndpoints' = pendingEndpoints \ {endpoint}
    /\ UNCHANGED <<args, codec, httpServerOpts, methodIdx, probeVars, shutVars,
                   listening, req>>

\* Serve: the range loop ends
ServeExplicitDone ==
    /\ serve_pc = "explicit"
    /\ pendingEndpoints = {}
    /\ serve_pc' = "health"
    /\ UNCHANGED <<args, codec, regVars, probeVars, shutVars, listening, req>>


\* Serve, lines 226-250: with a healthcheckFunc the probe goroutine is started
\* and the health endpoint registered; then the server value is built, the
\* signal channel subscribed and the shutdown goroutine started
ServeHealthSetup ==
    /\ serve_pc = "health"
    /\ IF httpServerOpts.healthcheckFunc
       THEN LET r == HandleFunc(mux, httpServerOpts.healthcheckEndpoint, healthHandler)
            IN  /\ mux' = r.mux
                /\ probe_pc' = "tick"
                /\ serve_pc' = IF r.ok THEN "listen" ELSE "panic"
                /\ shut_pc' = IF r.ok THEN "wait" ELSE shut_pc
       ELSE /\ serve_pc' = "listen"
            /\ shut_pc' = "wait"
            /\ UNCHANGED <<mux, probe_pc>>
    /\ UNCHANGED <<args, codec, httpServerOpts, methodIdx, pendingEndpoints, probeErr,
                   healthcheckStatus, staleStatus, lastProbe, exitChan, inShutdown,
                   idleConnsClosed, reRaised, listening, req>>

\* Serve, line 270: ListenAndServe binds the port, or fails to, or finds the
\* server already shut down; on failure Serve goes on to wait for idleConnsClosed
ServeListen ==
    /\ serve_pc = "listen"
    /\ IF inShutdown
       THEN /\ serve_pc' = "waitidle"
            /\ UNCHANGED listening
       ELSE \E bound \in BOOLEAN :
               /\ listening' = bound
               /\ serve_pc' = IF bound THEN "serving" ELSE "waitidle"
    /\ UNCHANGED <<args, codec, regVars, probeVars, shutVars, req>>

\* ListenAndServe returns ErrServerClosed once Shutdown has been called
ServeListenReturn ==
    /\ serve_pc = "serving"
    /\ inShutdown
    /\ serve_pc' = "waitidle"
    /\ UNCHANGED <<args, codec, regVars, probeVars, shutVars, listening, req>>

\* Serve, line 273: the receive from idleConnsClosed, then Serve returns
ServeReturn ==
    /\ serve_pc = "waitidle"
    /\ idleConnsClosed
    /\ serve_pc' = "returned"
    /\ UNCHANGED <<args, codec, regVars, probeVars, shutVars, listening, req>>

---------------------------------------------------------------------------
(* The health probe goroutine, lines 227-239 *)

\* a tick arrives and healthcheckFunc runs
ProbeRun ==
    /\ probe_pc = "tick"
    /\ \E failed \in BOOLEAN : probeErr' = failed
    /\ probe_pc' = "store"
    /\ UNCHANGED <<args, codec, regVars, serve_pc, healthcheckStatus, staleStatus, lastProbe,
                   shutVars, listening, req>>

\* the plain assignment to healthcheckStatus, lines 231 and 236; the value it
\* overwrites stays visible to reads not ordered after the write
ProbeStore ==
    /\ probe_pc = "store"
    /\ healthcheckStatus' =
           IF probeErr THEN StatusInternalServerError ELSE StatusOK
    /\ staleStatus' = staleStatus \cup {healthcheckStatus}
    /\ lastProbe' = IF probeErr THEN "err" ELSE "ok"
    /\ probe_pc' = "tick"
    /\ UNCHANGED <<args, codec, regVars, serve_pc, probeErr, shutVars, listening, req>>

---------------------------------------------------------------------------
(* Graceful shutdown, lines 248-268 *)

InFlight(c) == req[c].pc \in {"calling", "readstatus"}

\* the process receives os.Interrupt while exitChan is subscribed; a signal
\* that finds the buffer full is dropped
Signal ==
    /\ shut_pc \in {"wait", "draining", "reemit"}
    /\ exitChan = 0
    /\ exitChan' = 1
    /\ UNCHANGED <<args, codec, regVars, serve_pc, probeVars, shut_pc, inShutdown,
                   idleConnsClosed, reRaised, listening, req>>

\* exitSignal := <-exitChan, then Shutdown closes the listener
ShutdownBegin ==
    /\ shut_pc = "wait"
    /\ exitChan = 1
    /\ exitChan' = 0
    /\ inShutdown' = TRUE
    /\ listening' = FALSE
    /\ shut_pc' = "draining"
    /\ UNCHANGED <<args, codec, regVars, serve_pc, probeVars, idleConnsClosed, reRaised, req>>

\* a Shutdown that returns without waiting for the connections to become idle
ShutdownReturnsEarly ==
    /\ shut_pc = "draining"
    /\ idleConnsClosed' = TRUE
    /\ shut_pc' = "reemit"
    /\ UNCHANGED <<args, codec, regVars, serve_pc, probeVars, exitChan, inShutdown, reRaised,
                   listening, req>>

\* Shutdown(context.Background()) returns once no connection is serving a
\* request; then close(idleConnsClosed)
ShutdownDrained ==
    /\ shut_pc = "draining"
    /\ \A c \in Clients : ~InFlight(c)
    /\ idleConnsClosed' = TRUE
    /\ shut_pc' = "reemit"
    /\ UNCHANGED <<args, codec, regVars, serve_pc, probeVars, exitChan, inShutdown, reRaised,
                   listening, req>>

\* signal.Stop(exitChan), then currentProcess.Signal(exitSignal)
ReEmit ==
    /\ shut_pc = "reemit"
    /\ reRaised' = TRUE
    /\ shut_pc' = "done"
    /\ UNCHANGED <<args, codec, regVars, serve_pc, probeVars, exitChan, inShutdown,
                   idleConnsClosed, listening, req>>


---------------------------------------------------------------------------
(* The codec as the dispatcher uses it, and the requests clients send *)

Paths == {"/Add", "/Subtract", "/Close", "/Sum", HealthcheckEndpoint}
Verbs == {"POST", "GET", "PUT"}
Credentials == {"none", "bad", "good"}

\* JSON objects a client sends: every field given, a field left out, a field
\* the request message does not have
Objects ==
    [{"num_one", "num_two"} -> 0..MaxNum]
        \cup {"num_one" :> 1} \cup {"bogus" :> 1}

Payloads ==
    {[kind |-> "malformed", obj |-> EmptyNum]}
        \cup {[kind |-> "object", obj |-> o] : o \in Objects}

\* qson.ToJSON(r.URL.RawQuery): the query string as a JSON document
qsonToJSON(query) ==
    IF query.kind = "malformed"
    THEN [err |-> "qson: invalid url query param provided", doc |-> query]
    ELSE [err |-> "", doc |-> query]

\* unmarshaler.Unmarshal(body, structInstance) with AllowUnknownFields false:
\* fields left out keep the zero value
Unmarshal(doc, method) ==
    IF doc.kind = "malformed"
    THEN [err |-> "invalid character", msg |-> EmptyNum]
    ELSE IF \E k \in DOMAIN doc.obj : k \notin RequestFields(method)
    THEN [err |-> "unknown field in request", msg |-> EmptyNum]
    ELSE [err |-> "",
          msg |-> [f \in {GoField(k) : k \in RequestFields(method)} |->
                      IF OrigName(f) \in DOMAIN doc.obj
                      THEN doc.obj[OrigName(f)] ELSE 0]]

\* marshaler.Marshal(w, resp) with OrigName and EmitDefaults: every field is
\* written under its proto name; a response it cannot encode is an error
Marshal(resp, encodable) ==
    IF ~encodable
    THEN [err |-> "marshal error", json |-> EmptyNum]
    ELSE [err |-> "",
          json |-> [k \in {OrigName(f) : f \in DOMAIN resp} |-> resp[GoField(k)]]]

\* the middleware handlers a request passes, outermost first: Logger calls
\* next, BasicAuth calls next only for the configured credentials
RECURSIVE Observed(_, _)
Observed(chain, auth) ==
    IF chain = <<>> THEN <<>>
    ELSE IF Head(chain) = "BasicAuth" /\ auth # "good" THEN <<Head(chain)>>
    ELSE <<Head(chain)>> \o Observed(Tail(chain), auth)

\* every middleware of the chain calls next
Passes(chain, auth) ==
    \A i \in 1..Len(chain) : chain[i] = "BasicAuth" => auth = "good"

\* http.Error(w, text, code)
httpError(r, text, code) ==
    [r EXCEPT !.status = code, !.ctype = "text/plain; charset=utf-8",
              !.body = text, !.json = EmptyNum]


---------------------------------------------------------------------------
(* grpcjHandler: the handler closure, lines 277-322 *)

\* a handler that returns without running the deferred cancel
deferredCancelSkipped(r) == [r EXCEPT !.pc = "done"]

\* the handler returns: the deferred cancel() runs, the response is complete
deferredCancel(r) ==
    [r EXCEPT !.pc = "done", !.ctx = IF @ = "active" THEN "cancelled" ELSE @]

\* ctx.Done() is closed
CtxDone(r) == r.ctx \in {"cancelled", "expired"}

\* the decoded request message is kept and the method call is next
toCall(r, doc, msg) == [r EXCEPT !.pc = "calling", !.payload = doc, !.msg = msg]

\* lines 287-290 and 297-300: Unmarshal, and 400 with the error text on failure
decode(r, method, doc) ==
    LET u == Unmarshal(doc, method)
    IN  IF u.err # ""
        THEN deferredCancel(httpError([r EXCEPT !.payload = doc], u.err, StatusBadRequest))
        ELSE toCall(r, doc, u.msg)

\* lines 278-304: the deadline context, the request instance, the verb switch
handlerEntry(r, method, verb, payload) ==
    LET r1 == [r EXCEPT !.ctx = "active", !.trace = @ \o <<"handler">>]
    IN  IF NumIn(method) < 2
        THEN \* methodFunc.Type().In(1) panics; net/http drops the connection
             deferredCancel([r1 EXCEPT !.outcome = "panic"])
        ELSE IF verb = "POST"
        THEN decode(r1, method, payload)
        ELSE IF verb = "GET"
        THEN LET q == qsonToJSON(payload)
             IN  IF q.err # ""
                 THEN deferredCancel(httpError([r1 EXCEPT !.payload = payload],
                                               q.err, StatusBadRequest))
                 ELSE decode(r1, method, q.doc)
        ELSE deferredCancel([r1 EXCEPT !.status = StatusNotImplemented])

\* a handler that encodes the response whatever error the method returned
handlerReturnIgnoringError(r, outcome) ==
    LET r1 == [r EXCEPT !.calls = @ + 1, !.outcome = outcome,
                        !.ctype = "application/json"]
        m == Marshal(CallMethod(r.route, r.msg), outcome # "unencodable")
    IN  IF m.err # ""
        THEN deferredCancel(httpError(r1, "An error has occured",
                                      StatusInternalServerError))
        ELSE deferredCancel([r1 EXCEPT !.status = StatusOK, !.json = m.json])

\* lines 306-321: the method is called; its error, or its encoded response,
\* or the encoder's failure decides the response
handlerReturn(r, outcome) ==
    LET r1 == [r EXCEPT !.calls = @ + 1, !.outcome = outcome]
    IN  IF outcome = "err"
        THEN deferredCancel(httpError(r1, "method failed", StatusInternalServerError))
        ELSE LET r2 == [r1 EXCEPT !.ctype = "application/json"]
                 m == Marshal(CallMethod(r.route, r.msg), outcome = "ok")
             IN  IF m.err # ""
                 THEN deferredCancel(httpError(r2, "An error has occured",
                                               StatusInternalServerError))
                 ELSE deferredCancel([r2 EXCEPT !.status = StatusOK, !.json = m.json])

\* the handler chain registered for a pattern is run: the middleware in chain
\* order, then the method handler if every middleware called next
serveChain(r, h, verb, auth, payload) ==
    LET a == IF \E i \in 1..Len(h.chain) : h.chain[i] = "BasicAuth"
             THEN auth ELSE "unchecked"
        r1 == [r EXCEPT !.kind = h.kind,
                        !.route = IF h.kind = "health" THEN "health" ELSE h.method,
                        !.auth = a, !.trace = Observed(h.chain, a)]
    IN  IF ~Passes(h.chain, a)
        THEN [httpError(r1, "Unauthorized", StatusUnauthorized) EXCEPT !.pc = "done"]
        ELSE IF h.kind = "health"
        THEN [r1 EXCEPT !.pc = "readstatus"]
        ELSE handlerEntry(r1, h.method, verb, payload)

---------------------------------------------------------------------------
(* Requests *)

\* a client's request is accepted, routed by the mux and served up to the
\* point where its handler blocks (the method call, the read of healthcheckStatus) or returns
Arrive(c) ==
    /\ serve_pc = "serving"
    /\ listening
    /\ req[c].pc = "idle"
    /\ \E path \in Paths, verb \in Verbs, auth \in Credentials, payload \in Payloads :
        LET r0 == [IdleReq EXCEPT !.path = path, !.verb = verb]
        IN  req' = [req EXCEPT ![c] =
                IF path \notin DOMAIN mux
                THEN [httpError(r0, "404 page not found", StatusNotFound)
                          EXCEPT !.pc = "done"]
                ELSE serveChain(r0, mux[path], verb, auth, payload)]
    /\ UNCHANGED <<args, codec, regVars, serve_pc, probeVars, shutVars, listening>>

\* one context shared by the handlers: its deadline ends every call in progress
CtxTimeoutShared(c) ==
    /\ req[c].pc = "calling"
    /\ req[c].ctx = "active"
    /\ req' = [d \in Clients |->
                  IF req[d].pc = "calling" /\ req[d].ctx = "active"
                  THEN [req[d] EXCEPT !.ctx = "expired"] ELSE req[d]]
    /\ UNCHANGED <<args, codec, regVars, serve_pc, probeVars, shutVars, listening>>

\* the deadline of a request's context passes while its method runs
CtxTimeout(c) ==
    /\ req[c].pc = "calling"
    /\ req[c].ctx = "active"
    /\ req' = [req EXCEPT ![c].ctx = "expired"]
    /\ UNCHANGED <<args, codec, regVars, serve_pc, probeVars, shutVars, listening>>

\* the method returns and the handler finishes
Return(c) ==
    /\ req[c].pc = "calling"
    /\ \E outcome \in {"ok", "err", "unencodable"} :
        req' = [req EXCEPT ![c] = handlerReturn(req[c], outcome)]
    /\ UNCHANGED <<args, codec, regVars, serve_pc, probeVars, shutVars, listening>>

\* the health handler, line 241: w.WriteHeader(healthcheckStatus), a read
\* not ordered with the probe goroutine's writes
HealthRead(c) ==
    /\ req[c].pc = "readstatus"
    /\ \E v \in {healthcheckStatus} \cup staleStatus :
        req' = [req EXCEPT ![c] =
                   [@ EXCEPT !.pc = "done", !.status = v, !.probeAt = lastProbe]]
    /\ UNCHANGED <<args, codec, regVars, serve_pc, probeVars, shutVars, listening>>

\* the client has its response; the connection is idle again
Reset(c) ==
    /\ req[c].pc = "done"
    /\ req' = [req EXCEPT ![c] = IdleReq]
    /\ UNCHANGED <<args, codec, regVars, serve_pc, probeVars, shutVars, listening>>

---------------------------------------------------------------------------

Next ==
    \/ ServeReverse
    \/ ServeDiscover
    \/ ServeDiscoverDone
    \/ ServeExplicit
    \/ ServeExplicitDone
    \/ ServeHealthSetup
    \/ ServeListen
    \/ ServeListenReturn
    \/ ServeReturn
    \/ ProbeRun
    \/ ProbeStore
    \/ Signal
    \/ ShutdownBegin
    \/ ShutdownDrained
    \/ ReEmit
    \/ \E c \in Clients : Arrive(c)
    \/ \E c \in Clients : CtxTimeout(c)
    \/ \E c \in Clients : Return(c)
    \/ \E c \in Clients : HealthRead(c)
    \/ \E c \in Clients : Reset(c)

Spec == Init /\ [][Next]_vars

\* Two connections at once against one server with discovered and explicit
\* endpoints behind BasicAuth; no health check is configured and no signal
\* arrives while the requests are served.
ConcurrentScenario ==
    [allowed |-> <<>>, endpoints |-> ("/Sum" :> "Add"),
     middleware |-> <<"Logger", "BasicAuth">>, health |-> FALSE]

InitConcurrent == codec = CodecOff /\ ServeStart(ConcurrentScenario, TwoClients)

NextConcurrent ==
    \/ ServeReverse
    \/ ServeDiscover
    \/ ServeDiscoverDone
    \/ ServeExplicit
    \/ ServeExplicitDone
    \/ ServeHealthSetup
    \/ ServeListen
    \/ \E c \in Clients : Arrive(c)
    \/ \E c \in Clients : CtxTimeout(c)
    \/ \E c \in Clients : Return(c)
    \/ \E c \in Clients : Reset(c)

SpecConcurrent == InitConcurrent /\ [][NextConcurrent]_vars


---------------------------------------------------------------------------
(* The earlier revision of Serve (part_001): every method of the service   *)
(* is registered on the default mux, the handler decodes the body with     *)
(* encoding/json whatever the verb, and applyMiddlewareTo itself reverses  *)
(* the slice of the options, in place, on every call.                      *)

\* the middleware of the doc comment: Logger calls next, Auth calls next
\* only when the request is authorized and otherwise writes nothing
EarlyMiddlewareChoices ==
    {<<>>, <<"Logger">>, <<"Logger", "Auth">>, <<"Auth", "Logger">>}

EarlyScenarios ==
    [allowed : {<<>>}, endpoints : {EmptyMap},
     middleware : EarlyMiddlewareChoices, health : {FALSE}]

\* applyMiddlewareTo of part_001: reverse(middlewareHandlers) on the caller's
\* slice, then the wrapping loop; the slice stays reversed
applyMiddlewareToReversing(handler, middlewareHandlers) ==
    [handler |-> applyMiddlewareTo(handler, reverse(middlewareHandlers)),
     slice   |-> reverse(middlewareHandlers)]

\* Serve of part_001, lines 98-137: one iteration of the loop over the methods
EarlyRegister ==
    /\ serve_pc = "start"
    /\ methodIdx <= Len(ServiceMethods)
    /\ LET methodName == MethodName(ServiceMethods[methodIdx])
           w == applyMiddlewareToReversing(
                    grpcjHandler(ServiceMethods[methodIdx], "discovered"),
                    httpServerOpts.middlewareHandlers)
           r == HandleFunc(mux, "/" \o methodName, w.handler)
       IN  /\ mux' = r.mux
           /\ httpServerOpts' =
                  [httpServerOpts EXCEPT !.middlewareHandlers = w.slice]
           /\ serve_pc' = IF r.ok THEN "start" ELSE "panic"
    /\ methodIdx' = methodIdx + 1
    /\ UNCHANGED <<args, codec, pendingEndpoints, probeVars, shutVars, listening, req>>

\* Serve of part_001, line 139: http.ListenAndServe; Serve returns when the
\* bind fails
EarlyListen ==
    /\ serve_pc = "start"
    /\ methodIdx > Len(ServiceMethods)
    /\ \E bound \in BOOLEAN :
          /\ listening' = bound
          /\ serve_pc' = IF bound THEN "serving" ELSE "returned"
    /\ UNCHANGED <<args, codec, regVars, probeVars, shutVars, req>>

\* json.NewDecoder(r.Body).Decode(structInstance): fields are matched by the
\* json tags of the generated struct, unknown fields are skipped
jsonDecode(doc, method) ==
    IF doc.kind = "malformed"
    THEN [err |-> "invalid character", msg |-> EmptyNum]
    ELSE [err |-> "",
          msg |-> [f \in {GoField(k) : k \in RequestFields(method)} |->
                      IF OrigName(f) \in DOMAIN doc.obj
                      THEN doc.obj[OrigName(f)] ELSE 0]]

\* json.NewEncoder(w).Encode(resp): the json tags carry omitempty, a field
\* holding zero is left out
jsonEncode(resp, encodable) ==
    IF ~encodable
    THEN [err |-> "json: unsupported value", json |-> EmptyNum]
    ELSE [err |-> "",
          json |-> [k \in {OrigName(f) : f \in {g \in DOMAIN resp : resp[g] # 0}}
                       |-> resp[GoField(k)]]]

\* w.WriteHeader(code); w.Write(text): the content type is sniffed
writeError(r, text, code) ==
    [r EXCEPT !.status = code, !.ctype = "text/plain; charset=utf-8",
              !.body = text, !.json = EmptyNum]

\* the handler closure of part_001, lines 102-113
earlyHandlerEntry(r, method, payload) ==
    LET r1 == [r EXCEPT !.ctx = "active", !.trace = @ \o <<"handler">>]
        u == jsonDecode(payload, method)
    IN  IF NumIn(method) < 2
        THEN deferredCancel([r1 EXCEPT !.outcome = "panic"])
        ELSE IF u.err # ""
        THEN deferredCancel(writeError([r1 EXCEPT !.payload = payload],
                                       u.err, StatusBadRequest))
        ELSE toCall(r1, payload, u.msg)

\* the handler closure of part_001, lines 115-133
earlyHandlerReturn(r, outcome) ==
    LET r1 == [r EXCEPT !.calls = @ + 1, !.outcome = outcome]
    IN  IF outcome = "err"
        THEN deferredCancel(writeError(r1, "method failed",
                                       StatusInternalServerError))
        ELSE LET r2 == [r1 EXCEPT !.ctype = "application/json"]
                 m == jsonEncode(CallMethod(r.route, r.msg), outcome = "ok")
             IN  IF m.err # ""
                 THEN deferredCancel([r2 EXCEPT !.status = StatusInternalServerError,
                                                !.body = "An error has occured"])
                 ELSE deferredCancel([r2 EXCEPT !.status = StatusOK, !.json = m.json])

\* the middleware a request passes, outermost first
RECURSIVE EarlyObserved(_, _)
EarlyObserved(chain, auth) ==
    IF chain = <<>> THEN <<>>
    ELSE IF Head(chain) = "Auth" /\ auth # "good" THEN <<Head(chain)>>
    ELSE <<Head(chain)>> \o EarlyObserved(Tail(chain), auth)

\* a request is routed by the default mux and served up to the method call
EarlyArrive(c) ==
    /\ serve_pc = "serving"
    /\ listening
    /\ req[c].pc = "idle"
    /\ \E path \in Paths, auth \in {"none", "good"}, payload \in Payloads :
        LET r0 == [IdleReq EXCEPT !.path = path, !.verb = "POST"]
            h  == mux[path]
            a  == IF \E i \in 1..Len(h.chain) : h.chain[i] = "Auth"
                  THEN auth ELSE "unchecked"
            r1 == [r0 EXCEPT !.kind = "rpc", !.route = h.method, !.auth = a,
                             !.trace = EarlyObserved(h.chain, a)]
        IN  req' = [req EXCEPT ![c] =
                IF path \notin DOMAIN mux
                THEN [httpError(r0, "404 page not found", StatusNotFound)
                          EXCEPT !.pc = "done"]
                ELSE IF \E i \in 1..Len(h.chain) : h.chain[i] = "Auth" /\ a # "good"
                THEN \* Auth returns without writing: an empty 200
                     [r1 EXCEPT !.pc = "done", !.status = StatusOK]
                ELSE earlyHandlerEntry(r1, h.method, payload)]
    /\ UNCHANGED <<args, codec, regVars, serve_pc, probeVars, shutVars, listening>>

\* the method returns and the handler finishes
EarlyReturn(c) ==
    /\ req[c].pc = "calling"
    /\ \E outcome \in {"ok", "err", "unencodable"} :
        req' = [req EXCEPT ![c] = earlyHandlerReturn(req[c], outcome)]
    /\ UNCHANGED <<args, codec, regVars, serve_pc, probeVars, shutVars, listening>>

InitEarly == codec = CodecOff /\ \E a \in EarlyScenarios : ServeStart(a, OneClient)

NextEarly ==
    \/ EarlyRegister
    \/ EarlyListen
    \/ \E c \in Clients : EarlyArrive(c)
    \/ \E c \in Clients : CtxTimeout(c)
    \/ \E c \in Clients : EarlyReturn(c)
    \/ \E c \in Clients : Reset(c)

SpecEarly == InitEarly /\ [][NextEarly]_vars

---------------------------------------------------------------------------
(* The gateway codec (part_000): MarshalerGOGO and UnmarshalerGOGO.  Text  *)
(* is a sequence of one-character strings, a JSON number is kept in        *)
(* tenths (25 is 2.5), an integer n is the JSON number 10 * n.             *)

Digits == <<"0", "1", "2", "3", "4", "5", "6", "7", "8", "9">>
HexDigits == Digits \o <<"a", "b", "c", "d", "e", "f">>

\* the value of a digit character in a base, -1 if it is no digit of the base
DigitVal(ch, base) ==
    IF \E i \in 1..base : HexDigits[i] = ch
    THEN (CHOOSE i \in 1..base : HexDigits[i] = ch) - 1
    ELSE -1

\* strconv.FormatInt(n, 10) of a natural number
RECURSIVE FormatUint(_)
FormatUint(n) ==
    IF n < 10 THEN <<Digits[n + 1]>>
    ELSE FormatUint(n \div 10) \o <<Digits[(n % 10) + 1]>>

\* an fmt.Sprintf("%v", k) that prints an integer key the way a float64 that
\* went through a generic JSON number would be printed with one decimal
sprintfVAsFloat(k) ==
    (IF k < 0 THEN <<"-">> \o FormatUint(-k) ELSE FormatUint(k)) \o <<".", "0">>

\* fmt.Sprintf("%v", k.Interface()) of an integer map key: decimal text
sprintfV(k) ==
    IF k < 0 THEN <<"-">> \o FormatUint(-k) ELSE FormatUint(k)

\* the digits of s read in a base: the number, or -1 on a character that is
\* no digit of the base
RECURSIVE ParseDigits(_, _, _)
ParseDigits(s, base, acc) ==
    IF s = <<>> THEN acc
    ELSE IF DigitVal(Head(s), base) < 0 THEN -1
    ELSE ParseDigits(Tail(s), base, acc * base + DigitVal(Head(s), base))

\* runtime.Int32 and runtime.Int64: strconv.ParseInt(val, 0, bits).  Base 0
\* takes an optional sign and reads the base off the prefix: 0x is
\* hexadecimal, another leading 0 is octal, anything else decimal.
ParseInt(val) ==
    LET signed == val # <<>> /\ Head(val) \in {"+", "-"}
        s  == IF signed THEN Tail(val) ELSE val
        hex == Len(s) >= 3 /\ s[1] = "0" /\ s[2] = "x"
        base == IF hex THEN 16 ELSE IF s # <<>> /\ s[1] = "0" THEN 8 ELSE 10
        ds == IF hex THEN SubSeq(s, 3, Len(s))
              ELSE IF base = 8 THEN Tail(s) ELSE s
        n  == ParseDigits(ds, base, 0)
    IN  IF s = <<>> \/ n < 0
        THEN [err |-> "strconv.ParseInt: invalid syntax", n |-> 0]
        ELSE [err |-> "", n |-> IF signed /\ Head(val) = "-" THEN -n ELSE n]

\* convFromType: the conversion of a key text by the kind of the map key
convFromType(keyKind) ==
    IF keyKind \in {"int32", "int64"} THEN "ParseInt" ELSE "unsupported"

\* the key kind of a map type
KeyKind(base) ==
    CASE base = "map_int32" -> "int32"
      [] base = "map_int64" -> "int64"
      [] OTHER -> "none"

IsMap(base) == base \in {"map_int32", "map_int64"}

\* v.(proto.Message): a non-nil interface holding a pointer to a message struct
IsProtoMessage(v) == v.base \in {"message", "timestamps"} /\ v.ptrs = 1

\* a number of tenths cut to an integer: int32(f) and the integer JSON
\* number of a whole number of tenths
Trunc(tenths) == IF tenths >= 0 THEN tenths \div 10 ELSE -((-tenths) \div 10)
IsWhole(tenths) == tenths % 10 = 0

\* enum.String(): the symbolic name of a declared ordinal, the decimal text
\* of any other
EnumName(n) ==
    IF n \in 0..2 THEN <<"V", "A", "L", "_">> \o FormatUint(n)
    ELSE IF n < 0 THEN <<"-">> \o FormatUint(-n) ELSE FormatUint(n)

NumberDoc(n) == JSONDoc("number", 10 * n, <<>>, EmptyNum, EmptyNum, EmptyText)
NullDoc == JSONDoc("null", 0, <<>>, EmptyNum, EmptyNum, EmptyText)
StringDoc(text) == JSONDoc("string", 0, text, EmptyNum, EmptyNum, EmptyText)
ObjectDoc(obj) == JSONDoc("object", 0, <<>>, obj, EmptyNum, EmptyText)

\* a natural number in exactly w decimal digits
RECURSIVE Pad(_, _)
Pad(n, w) ==
    IF w = 0 THEN <<>> ELSE Pad(n \div 10, w - 1) \o <<Digits[(n % 10) + 1]>>

RECURSIVE Pow10(_)
Pow10(k) == IF k = 0 THEN 1 ELSE 10 * Pow10(k - 1)

\* the civil date of a day number (days since 1970-01-01, proleptic
\* Gregorian calendar)
CivilFromDays(days) ==
    LET z   == days + 719468
        era == z \div 146097
        doe == z - era * 146097
        yoe == (doe - doe \div 1460 + doe \div 36524 - doe \div 146096) \div 365
        doy == doe - (365 * yoe + yoe \div 4 - yoe \div 100)
        mp  == (5 * doy + 2) \div 153
        mon == IF mp < 10 THEN mp + 3 ELSE mp - 9
    IN  [year  |-> yoe + era * 400 + (IF mon <= 2 THEN 1 ELSE 0),
         month |-> mon,
         day   |-> doy - (153 * mp + 2) \div 5 + 1]

\* the day number of a civil date
DaysFromCivil(year, month, day) ==
    LET y   == IF month <= 2 THEN year - 1 ELSE year
        era == y \div 400
        yoe == y - era * 400
        doy == (153 * (IF month > 2 THEN month - 3 ELSE month + 9) + 2) \div 5
                   + day - 1
        doe == yoe * 365 + yoe \div 4 - yoe \div 100 + doy
    IN  era * 146097 + doe - 719468

\* a timestamp as an RFC 3339 string with the fraction cut to microseconds
FormatRFC3339Micro(seconds, nanos) ==
    LET date == CivilFromDays(seconds \div 86400)
        secs == seconds % 86400
    IN  Pad(date.year, 4) \o <<"-">> \o Pad(date.month, 2) \o <<"-">>
            \o Pad(date.day, 2) \o <<"T">> \o Pad(secs \div 3600, 2) \o <<":">>
            \o Pad((secs % 3600) \div 60, 2) \o <<":">> \o Pad(secs % 60, 2)
            \o <<".">> \o Pad(nanos \div 1000, 6) \o <<"Z">>

\* a timestamp (seconds since the epoch, nanoseconds) as an RFC 3339 string
\* in UTC with nine fractional digits
FormatRFC3339(seconds, nanos) ==
    LET date == CivilFromDays(seconds \div 86400)
        secs == seconds % 86400
    IN  Pad(date.year, 4) \o <<"-">> \o Pad(date.month, 2) \o <<"-">>
            \o Pad(date.day, 2) \o <<"T">> \o Pad(secs \div 3600, 2) \o <<":">>
            \o Pad((secs % 3600) \div 60, 2) \o <<":">> \o Pad(secs % 60, 2)
            \o <<".">> \o Pad(nanos, 9) \o <<"Z">>

\* an RFC 3339 string in UTC read back: the fraction is optional and has one
\* to nine digits
ParseRFC3339(text) ==
    LET num(a, b) == ParseDigits(SubSeq(text, a, b), 10, 0)
        shaped == /\ Len(text) >= 20
                  /\ text[5] = "-" /\ text[8] = "-" /\ text[11] = "T"
                  /\ text[14] = ":" /\ text[17] = ":"
                  /\ text[Len(text)] = "Z"
                  /\ Len(text) > 20 => (text[20] = "." /\ Len(text) \in 22..30)
        fracLen == IF Len(text) > 20 THEN Len(text) - 21 ELSE 0
        frac == IF fracLen = 0 THEN 0 ELSE num(21, Len(text) - 1)
        ok == /\ shaped
              /\ \A f \in {num(1, 4), num(6, 7), num(9, 10), num(12, 13),
                           num(15, 16), num(18, 19), frac} : f >= 0
              /\ num(6, 7) \in 1..12 /\ num(9, 10) \in 1..31
              /\ num(12, 13) < 24 /\ num(15, 16) < 60 /\ num(18, 19) < 60
    IN  IF ~ok
        THEN [err |-> "bad Timestamp: parsing time", seconds |-> 0, nanos |-> 0]
        ELSE [err |-> "",
              seconds |-> DaysFromCivil(num(1, 4), num(6, 7), num(9, 10)) * 86400
                              + num(12, 13) * 3600 + num(15, 16) * 60 + num(18, 19),
              nanos |-> frac * Pow10(9 - fracLen)]

\* the message-aware encoder the codec delegates to: a nil message is null,
\* a message is an object of its fields under their proto names, a
\* timestamp field (pointer or value) is one RFC 3339 string
jsonpbMarshal(v) ==
    IF v.nilAt # 0
    THEN [err |-> "", doc |-> NullDoc]
    ELSE IF v.base = "timestamps"
    THEN [err |-> "",
          doc |-> JSONDoc("message", 0, <<>>, EmptyNum, EmptyNum,
                     [f \in {"T1", "T2"} |->
                         FormatRFC3339(v.msg[f \o ".Seconds"], v.msg[f \o ".Nanos"])])]
    ELSE LET m == Marshal(v.msg, TRUE)
         IN  [err |-> m.err,
              doc |-> JSONDoc("message", 0, <<>>, EmptyNum, m.json, EmptyText)]

\* the message-aware decoder the codec delegates to
jsonpbUnmarshalNext(doc, v) ==
    IF doc.kind = "null"
    THEN [err |-> "", quoted |-> <<>>, value |-> v]
    ELSE IF doc.kind # "message"
    THEN [err |-> "json: cannot unmarshal into a message", quoted |-> <<>>, value |-> v]
    ELSE IF v.base = "timestamps"
    THEN LET t1 == ParseRFC3339(doc.strs["T1"])
             t2 == ParseRFC3339(doc.strs["T2"])
         IN  IF DOMAIN doc.strs # {"T1", "T2"} \/ t1.err # "" \/ t2.err # ""
             THEN [err |-> "bad Timestamp: parsing time", quoted |-> <<>>, value |-> v]
             ELSE [err |-> "", quoted |-> <<>>,
                   value |-> [v EXCEPT !.msg =
                       ("T1.Seconds" :> t1.seconds) @@ ("T1.Nanos" :> t1.nanos) @@
                       ("T2.Seconds" :> t2.seconds) @@ ("T2.Nanos" :> t2.nanos)]]
    ELSE LET u == Unmarshal([kind |-> "object", obj |-> doc.fields], "Add")
         IN  [err |-> u.err, quoted |-> <<>>,
              value |-> IF u.err = "" THEN [v EXCEPT !.msg = u.msg] ELSE v]

---------------------------------------------------------------------------
(* MarshalerGOGO, lines 78-134 *)

\* marshalNonProtoField, lines 107-134: reflect.ValueOf(nil) is the zero
\* Value, whose Kind is neither Ptr nor Map and whose Interface() panics
RECURSIVE marshalNonProtoField(_, _)
marshalNonProtoField(v, enumsAsInts) ==
    IF v.base = "untyped"
    THEN [err |-> "panic: reflect: call of reflect.Value.Interface on zero Value",
          doc |-> NoDoc]
    ELSE IF v.nilAt # 0
    THEN [err |-> "", doc |-> NullDoc]
    ELSE IF IsMap(v.base)
    THEN \* the values go through marshalV, which for a scalar is
         \* marshalNonProtoField again
         LET val(k) == marshalNonProtoField(
                           GoValue("int64", 0, 0, v.m[k], EmptyNum, EmptyNum),
                           enumsAsInts)
         IN  [err |-> "",
              doc |-> ObjectDoc(
                  [t \in {sprintfV(k) : k \in DOMAIN v.m} |->
                      val(CHOOSE k \in DOMAIN v.m : sprintfV(k) = t).doc.num])]
    ELSE IF v.base = "enum" /\ ~enumsAsInts
    THEN [err |-> "", doc |-> StringDoc(EnumName(v.n))]
    ELSE [err |-> "", doc |-> NumberDoc(v.n)]

\* Marshal, lines 78-89
MarshalGOGO(v, enumsAsInts) ==
    IF ~IsProtoMessage(v)
    THEN marshalNonProtoField(v, enumsAsInts)
    ELSE jsonpbMarshal(v)

---------------------------------------------------------------------------
(* UnmarshalerGOGO, lines 152-234.  Each operator gives the set of results *)
(* the call can have (a Go map is ranged over in no particular order).     *)

\* the destination with every pointer on the way to the base allocated
Allocated(dest) == [dest EXCEPT !.nilAt = 0]

Failed(err, quoted, dest) == [err |-> err, quoted |-> quoted, value |-> dest]
Decoded(v) == [err |-> "", quoted |-> <<>>, value |-> v]

\* line 233, d.Decode(v) for an integer destination: a whole number is
\* stored, null makes the outermost pointer nil and leaves a plain integer
\* alone, anything else is an error
decodeScalar(doc, dest) ==
    CASE doc.kind = "malformed" ->
            Failed("invalid character", <<>>, dest)
      [] doc.kind = "number" /\ IsWhole(doc.num) ->
            Decoded([Allocated(dest) EXCEPT !.n = Trunc(doc.num)])
      [] doc.kind = "null" ->
            Decoded([dest EXCEPT !.nilAt = IF dest.ptrs > 0 THEN 1 ELSE 0])
      [] OTHER ->
            Failed("json: cannot unmarshal into Go value", <<>>, Allocated(dest))

\* an enum branch that takes a symbolic name as well as a number
decodeEnumSymbolic(doc, dest) ==
    CASE doc.kind = "malformed" ->
            Failed("invalid character", <<>>, Allocated(dest))
      [] doc.kind = "string" ->
            Decoded([Allocated(dest) EXCEPT !.n = 0])
      [] doc.kind = "number" ->
            Decoded([Allocated(dest) EXCEPT !.n = Trunc(doc.num)])
      [] OTHER ->
            Failed("cannot assign into Go type", <<>>, Allocated(dest))

\* lines 218-232: the enum branch
decodeEnum(doc, dest) ==
    CASE doc.kind = "malformed" ->
            Failed("invalid character", <<>>, Allocated(dest))
      [] doc.kind = "string" ->
            Failed("unmarshaling of symbolic enum not supported", doc.str,
                   Allocated(dest))
      [] doc.kind = "number" ->
            Decoded([Allocated(dest) EXCEPT !.n = Trunc(doc.num)])
      [] OTHER ->
            Failed("cannot assign into Go type", <<>>, Allocated(dest))

\* lines 191-217: the map branch
decodeMap(doc, dest) ==
    LET d0 == Allocated(dest)
        keys == DOMAIN doc.obj
        badKeys == {t \in keys : ParseInt(t).err # ""}
        badVals == {t \in keys : ~IsWhole(doc.obj[t])}
        ints == {ParseInt(t).n : t \in keys}
        \* which of the entries with the same converted key is stored last
        lasts == {g \in [ints -> keys] : \A k \in ints : ParseInt(g[k]).n = k}
    IN  CASE convFromType(KeyKind(dest.base)) = "unsupported" ->
                {Failed("unsupported type of map field key", <<>>, d0)}
          [] doc.kind = "malformed" ->
                {Failed("invalid character", <<>>, d0)}
          [] doc.kind = "null" ->
                {Decoded([d0 EXCEPT !.m = EmptyNum])}
          [] doc.kind # "object" ->
                {Failed("json: cannot unmarshal into Go value", <<>>, d0)}
          [] badKeys \cup badVals # {} ->
                {Failed(ParseInt(t).err, <<>>, d0) : t \in badKeys}
                    \cup {Failed("json: cannot unmarshal number into Go value",
                                 <<>>, d0) : t \in badVals}
          [] OTHER ->
                {Decoded([d0 EXCEPT !.m = [k \in ints |-> Trunc(doc.obj[g[k]])]])
                     : g \in lasts}

\* decodeNonProtoField, lines 177-234
decodeNonProtoField(doc, dest) ==
    IF IsMap(dest.base) THEN decodeMap(doc, dest)
    ELSE IF dest.base = "enum" THEN {decodeEnum(doc, dest)}
    ELSE {decodeScalar(doc, dest)}

\* decodeJSONPb, lines 168-175
decodeJSONPb(doc, dest) ==
    IF IsProtoMessage(dest)
    THEN {jsonpbUnmarshalNext(doc, dest)}
    ELSE decodeNonProtoField(doc, dest)

\* Unmarshal, lines 152-155
UnmarshalGOGO(doc, dest) == decodeJSONPb(doc, dest)

---------------------------------------------------------------------------
(* Uses of the codec: a value is encoded and the document decoded into a   *)
(* fresh destination of the value's type, or a document is decoded into a  *)
(* destination and the result encoded again.                               *)

\* most pointers around a scalar or an enum
MaxPtrs == 2

Numbers == {-7, 0, 2, 42}
MapKeys == {-7, 0, 42}
MapVals == {1, 2}

\* 1970-01-01, 1986-03-10 05:05:05 (the test's instant) and 2000-02-29 23:59:59
TimestampSeconds == {0, 510815105, 951868799}
TimestampNanos == {0, 5, 999999999}

ZeroMsg(base) ==
    IF base = "timestamps"
    THEN [f \in {"T1.Seconds", "T1.Nanos", "T2.Seconds", "T2.Nanos"} |-> 0]
    ELSE [f \in {"NumOne", "NumTwo"} |-> 0]

\* a new destination of a type: a pointer to a zero message for a message
\* type, otherwise a nil pointer, an empty map or a zero
Dest(base, ptrs) ==
    IF base \in {"message", "timestamps"}
    THEN GoValue(base, 1, 0, 0, EmptyNum, ZeroMsg(base))
    ELSE GoValue(base, ptrs, IF ptrs > 0 THEN 1 ELSE 0, 0, EmptyNum, EmptyNum)

\* integers and enums, behind up to MaxPtrs pointers, any one of them nil
ScalarValues ==
    UNION {{GoValue(b, p, z, IF z = 0 THEN n ELSE 0, EmptyNum, EmptyNum) :
                b \in {"int32", "int64", "enum"}, z \in 0..p, n \in Numbers} :
           p \in 0..MaxPtrs}

\* maps from integer keys to integers, plain or behind a pointer
MapValues ==
    UNION {{GoValue(b, p, z, 0, IF z = 0 THEN m ELSE EmptyNum, EmptyNum) :
                b \in {"map_int32", "map_int64"}, z \in 0..p,
                m \in UNION {[ks -> MapVals] : ks \in SUBSET MapKeys}} :
           p \in 0..1}

\* pointers to messages with integer fields, and the nil such pointer
MessageValues ==
    {GoValue("message", 1, 0, 0, EmptyNum, f) : f \in [{"NumOne", "NumTwo"} -> 0..1]}
        \cup {GoValue("message", 1, 1, 0, EmptyNum, ZeroMsg("message"))}

\* the message of the timestamp test: T1 a pointer to a timestamp, T2 a timestamp
TimestampValues ==
    {GoValue("timestamps", 1, 0, 0, EmptyNum,
             ("T1.Seconds" :> s1) @@ ("T1.Nanos" :> n1) @@
             ("T2.Seconds" :> s2) @@ ("T2.Nanos" :> n2)) :
        s1 \in TimestampSeconds, n1 \in TimestampNanos,
        s2 \in TimestampSeconds, n2 \in TimestampNanos}

\* the nil interface value
UntypedNil == GoValue("untyped", 0, 0, 0, EmptyNum, EmptyNum)

Values ==
    ScalarValues \cup MapValues \cup MessageValues \cup TimestampValues
        \cup {UntypedNil}

\* key texts a client may write in a JSON object
KeyTexts ==
    {<<"4", "2">>, <<"0", "4", "2">>, <<"0", "x", "2", "a">>, <<"3", "4">>,
     <<"+", "4", "2">>, <<"-", "7">>, <<"0">>, <<"4", "2", ".", "0">>, <<"a">>}

\* the documents decoded: null, numbers (2, 2.5, -7, 0, 42), strings, other
\* kinds, text that is not JSON, and objects of up to two members
Docs ==
    {JSONDoc(k, 0, <<>>, EmptyNum, EmptyNum, EmptyText) :
         k \in {"null", "bool", "array", "malformed"}}
        \cup {JSONDoc("number", x, <<>>, EmptyNum, EmptyNum, EmptyText) :
                  x \in {20, 25, -70, 0, 420}}
        \cup {StringDoc(t) : t \in {<<"V", "A", "L", "_", "2">>, <<"2">>}}
        \cup {ObjectDoc(o) :
                  o \in UNION {[ks -> {10, 20, 15}] :
                                  ks \in {k \in SUBSET KeyTexts : Cardinality(k) <= 2}}}

\* the destinations documents are decoded into
Dests ==
    {Dest(b, p) : b \in {"int32", "enum", "map_int32", "map_int64"}, p \in 0..1}

serverVars ==
    <<args, httpServerOpts, serve_pc, methodIdx, pendingEndpoints, mux,
      probe_pc, probeErr, healthcheckStatus, staleStatus, lastProbe,
      exitChan, shut_pc, inShutdown, listening, idleConnsClosed, reRaised, req>>

\* no server is involved in a use of the codec
NoServe ==
    [allowed |-> <<>>, endpoints |-> EmptyMap, middleware |-> <<>>,
     health |-> FALSE]

\* MarshalerGOGO.Marshal(w, v) is called
CodecEncode ==
    /\ codec.pc = "encode"
    /\ LET r == MarshalGOGO(codec.value, codec.enumsAsInts)
       IN  codec' = [codec EXCEPT
               !.doc = r.doc, !.encodeErr = r.err,
               !.done = @ \o <<"encode">>,
               !.pc = IF r.err # "" \/ codec.first = "decode"
                      THEN "done" ELSE "decode"]
    /\ UNCHANGED serverVars

\* UnmarshalerGOGO.Unmarshal(r, v) is called with a pointer to the destination
CodecDecode ==
    /\ codec.pc = "decode"
    /\ LET dest == IF codec.first = "decode" THEN codec.value
                   ELSE Dest(codec.value.base, codec.value.ptrs)
       IN  \E r \in UnmarshalGOGO(codec.doc, dest) :
               codec' = [codec EXCEPT
                   !.value = r.value, !.decodeErr = r.err, !.quoted = r.quoted,
                   !.done = @ \o <<"decode">>,
                   !.pc = IF r.err # "" \/ codec.first = "encode"
                          THEN "done" ELSE "encode"]
    /\ UNCHANGED serverVars

InitCodec ==
    /\ ServeStart(NoServe, {})
    /\ \/ \E v \in Values, ints \in BOOLEAN :
             /\ v.base # "enum" => ints
             /\ codec = [CodecOff EXCEPT !.pc = "encode", !.first = "encode",
                             !.enumsAsInts = ints, !.inValue = v, !.value = v]
       \/ \E d \in Docs, dest \in Dests :
             codec = [CodecOff EXCEPT !.pc = "decode", !.first = "decode",
                          !.inValue = dest, !.value = dest, !.inDoc = d, !.doc = d]

NextCodec == CodecEncode \/ CodecDecode

SpecCodec == InitCodec /\ [][NextCodec]_vars

---------------------------------------------------------------------------
(* Properties *)

\* Serve has registered every endpoint it is going to register
Registered == serve_pc \in {"listen", "serving", "waitidle", "returned"}

Listed(m) == \E j \in 1..Len(args.allowed) : args.allowed[j] = m

Routable(p) == p \in DOMAIN mux

Answered(c) == req[c].pc = "done"

\* C1: with a non-empty allow-list, the endpoint of a method of the service
\* is routable exactly when the method is listed: /Add reaches Add, and a
\* request to the endpoint of an unlisted method is answered 404.
C1_AllowListRoutesListed ==
    (Registered /\ args.allowed # <<>>) =>
        /\ \A i \in 1..Len(ServiceMethods) :
              LET m == ServiceMethods[i]
              IN  IF Listed(m)
                  THEN Routable("/" \o m) /\ mux["/" \o m].method = m
                  ELSE ~Routable("/" \o m)
        /\ \A c \in Clients :
              (Answered(c) /\ req[c].path = "/Add") => req[c].route = "Add"

\* C2: no endpoint is registered for a method that does not have the RPC
\* shape, and no request reaches a handler for it.
C2_OnlyRpcShapeRegistered ==
    \A i \in 1..Len(ServiceMethods) :
        LET m == ServiceMethods[i]
        IN  NumIn(m) # 2 =>
                /\ ~Routable("/" \o m)
                /\ \A c \in Clients : req[c].route # m

\* an explicit endpoint whose path is the path of a discovered method
Collides(p) == \E i \in 1..Len(ServiceMethods) : p = "/" \o ServiceMethods[i]

\* C3 as stated: with a colliding explicit endpoint, registration raises
\* nothing and the path is bound to the explicitly mapped method.
C3_ExplicitWinsSilently ==
    \A p \in DOMAIN args.endpoints :
        (args.allowed = <<>> /\ Collides(p)) =>
            /\ serve_pc # "panic"
            /\ Registered => (Routable(p) /\ mux[p].method = args.endpoints[p])

\* C3 amended: once the range loop has visited an allowed explicit endpoint
\* whose path the discovery loop registered, Serve has panicked in the mux;
\* a Serve that panicked never listens and never dispatches a request.
C3_CollisionPanics ==
    /\ \A p \in DOMAIN args.endpoints \ pendingEndpoints :
          ( /\ serve_pc # "start"
            /\ \E i \in 1..Len(ServiceMethods) :
                  /\ p = "/" \o ServiceMethods[i]
                  /\ isAllowedMethod(httpServerOpts, MethodName(ServiceMethods[i]))
            /\ isAllowedMethod(httpServerOpts, FuncForPCName(args.endpoints[p])) )
          => serve_pc = "panic"
    /\ serve_pc = "panic" =>
          /\ ~listening
          /\ shut_pc = "off"
          /\ \A c \in Clients : req[c].pc = "idle"

C3_Witness == serve_pc = "panic"

\* the number a JSON object gives a field, zero when it leaves the field out
FieldOf(obj, k) == IF k \in DOMAIN obj THEN obj[k] ELSE 0

\* the JSON document the method of a route answers a request payload with
ExpectedJSON(route, obj) ==
    IF route = "Add"
    THEN "sum" :> (FieldOf(obj, "num_one") + FieldOf(obj, "num_two"))
    ELSE "difference" :> (FieldOf(obj, "num_one") - FieldOf(obj, "num_two"))

ErrorResponse(r, text) ==
    /\ r.status = StatusInternalServerError
    /\ r.body = text
    /\ r.json = EmptyNum
    /\ r.ctype # "application/json"

OKResponse(r) ==
    /\ r.status = StatusOK
    /\ r.ctype = "application/json"
    /\ r.body = ""
    /\ r.json = ExpectedJSON(r.route, r.payload.obj)

\* C4 as stated: after the method was invoked, a non-nil error gives 500
\* with the error text and no encoded body, and anything else gives 200 with
\* the JSON encoding of the returned message; the method was invoked once.
C4_ResultDecidesResponse ==
    \A c \in Clients :
        (Answered(c) /\ req[c].calls > 0) =>
            /\ req[c].calls = 1
            /\ IF req[c].outcome = "err"
               THEN ErrorResponse(req[c], "method failed")
               ELSE OKResponse(req[c])

\* C4 amended: as stated, except that when the returned error is nil and
\* encoding the returned message fails the response is 500 with the generic
\* text; POST {"num_one": 1, "num_two": 1} to /Add yields {"sum": 2}.
C4_ResultOrEncodeFailureDecidesResponse ==
    \A c \in Clients :
        (Answered(c) /\ req[c].calls > 0) =>
            /\ req[c].calls = 1
            /\ req[c].outcome = "err" => ErrorResponse(req[c], "method failed")
            /\ req[c].outcome = "unencodable" =>
                   ErrorResponse(req[c], "An error has occured")
            /\ req[c].outcome = "ok" => OKResponse(req[c])
            /\ ( /\ req[c].outcome = "ok"
                 /\ req[c].route = "Add"
                 /\ req[c].payload.obj = [k \in {"num_one", "num_two"} |-> 1] )
               => req[c].json = ("sum" :> 2)

C4_Witness ==
    \E c \in Clients :
        /\ Answered(c)
        /\ req[c].path = "/Add"
        /\ req[c].verb = "POST"
        /\ req[c].payload.obj = [k \in {"num_one", "num_two"} |-> 1]
        /\ req[c].calls = 1
        /\ req[c].status = StatusOK
        /\ req[c].json = ("sum" :> 2)


\* the request reached the method handler behind the middleware
HandlerRan(c) ==
    req[c].kind = "rpc" /\ \E i \in 1..Len(req[c].trace) : req[c].trace[i] = "handler"

\* C5: the method is invoked only for a POST or GET whose payload decoded;
\* a payload that fails to decode is answered 400 with the decode error and
\* no invocation; any other verb is answered 501 with neither decoding nor
\* invocation.
C5_InvokeOnlyDecodedPostOrGet ==
    \A c \in Clients :
        HandlerRan(c) =>
            /\ (req[c].pc = "calling" \/ req[c].calls > 0) =>
                   /\ req[c].verb \in {"POST", "GET"}
                   /\ req[c].payload.kind = "object"
                   /\ DOMAIN req[c].payload.obj \subseteq RequestFields(req[c].route)
            /\ ( /\ Answered(c)
                 /\ req[c].verb \in {"POST", "GET"}
                 /\ req[c].payload.kind # "unread"
                 /\ \/ req[c].payload.kind = "malformed"
                    \/ ~(DOMAIN req[c].payload.obj \subseteq RequestFields(req[c].route)) )
               => /\ req[c].status = StatusBadRequest
                  /\ req[c].body # ""
                  /\ req[c].calls = 0
            /\ (Answered(c) /\ req[c].verb \notin {"POST", "GET"}) =>
                   /\ req[c].status = StatusNotImplemented
                   /\ req[c].payload = NoPayload
                   /\ req[c].calls = 0

\* the middleware part of a request's trace
MiddlewareSeen(t) == SelectSeq(t, LAMBDA x : x # "handler")

\* C6: on every registered RPC endpoint the middleware run in the order of
\* their declaration: a request sees a prefix of the declared list, the
\* prefix ends at the first middleware that does not call next, and the
\* method handler runs only after the whole list.
C6_MiddlewareInDeclaredOrder ==
    /\ \A p \in DOMAIN mux :
          mux[p].kind = "rpc" => mux[p].chain = args.middleware
    /\ \A c \in Clients :
          req[c].kind = "rpc" =>
              LET seen == MiddlewareSeen(req[c].trace)
              IN  /\ Len(seen) <= Len(args.middleware)
                  /\ seen = SubSeq(args.middleware, 1, Len(seen))
                  /\ \A i \in 1..Len(seen) :
                        (seen[i] = "BasicAuth" /\ req[c].auth # "good")
                            => Len(req[c].trace) = i
                  /\ HandlerRan(c) =>
                        req[c].trace = args.middleware \o <<"handler">>

C6_Witness ==
    \E c \in Clients :
        /\ Answered(c)
        /\ args.middleware = <<"Logger", "BasicAuth">>
        /\ req[c].trace = <<"Logger", "BasicAuth", "handler">>

\* C7: a handler invocation has its own deadline context while it runs, and
\* the context is done when the handler has returned, whatever the path:
\* 400, 501, 500 from the method, 500 from the encoder, 200.
C7_ContextCancelledOnReturn ==
    \A c \in Clients :
        /\ HandlerRan(c) =>
              /\ req[c].pc = "calling" => req[c].ctx \in {"active", "expired"}
              /\ Answered(c) => CtxDone(req[c])
        /\ ~HandlerRan(c) => req[c].ctx = "none"

C7_Witness ==
    \E c \in Clients :
        /\ Answered(c)
        /\ HandlerRan(c)
        /\ req[c].status = StatusBadRequest
        /\ req[c].ctx = "cancelled"

\* C8: the health endpoint answers with the status of the most recent
\* completed probe, 200 before any probe, and does not invoke anything.
C8_HealthReportsLastProbe ==
    \A c \in Clients :
        (Answered(c) /\ req[c].kind = "health") =>
            /\ req[c].status =
                   IF req[c].probeAt = "err" THEN StatusInternalServerError
                   ELSE StatusOK
            /\ req[c].calls = 0

\* C9: the probe goroutine's write of healthcheckStatus and a handler's read
\* of it are never both pending at once (neither holds a lock or uses an
\* atomic, so nothing else orders them).
C9_HealthStatusAccessOrdered ==
    ~(probe_pc = "store" /\ \E c \in Clients : req[c].pc = "readstatus")

\* C10: once Shutdown has been called the listener accepts nothing; the
\* signal is re-emitted, idleConnsClosed closed and Serve returned only
\* when no request is in flight, and in that order.
C10_DrainBeforeReEmit ==
    /\ inShutdown => ~listening
    /\ (idleConnsClosed \/ reRaised \/ serve_pc = "returned") =>
          /\ inShutdown
          /\ \A c \in Clients : ~InFlight(c)
    /\ reRaised => idleConnsClosed
    /\ serve_pc = "returned" => idleConnsClosed

C10_Witness ==
    /\ reRaised
    /\ serve_pc = "returned"
    /\ \E c \in Clients : Answered(c) /\ req[c].calls = 1

\* a step Serve or its shutdown goroutine can take with no new signal
ServeUnaided == ServeReturn \/ ShutdownBegin \/ ShutdownDrained \/ ReEmit

\* ListenAndServe has returned an error other than ErrServerClosed (the bind
\* failed) and no signal has been delivered
BindFailed == serve_pc = "waitidle" /\ ~inShutdown /\ exitChan = 0

\* C11: after a failed bind Serve is never left waiting on an external
\* event: while no signal has arrived, Serve can still go on to return.
C11_BindFailureReturnsUnaided == BindFailed => ENABLED ServeUnaided

\* C18: the health endpoint is registered and answered without any
\* middleware (no credentials are looked at, no 401), whatever the verb (no
\* 501), and calls no method; every RPC endpoint is registered behind all
\* the declared middleware and its method runs only after each of them.
C18_HealthBypassesMiddleware ==
    /\ \A p \in DOMAIN mux :
          /\ mux[p].kind = "health" => mux[p].chain = <<>>
          /\ mux[p].kind = "rpc" =>
                /\ Len(mux[p].chain) = Len(args.middleware)
                /\ \A i \in 1..Len(args.middleware) :
                       \E j \in 1..Len(mux[p].chain) :
                           mux[p].chain[j] = args.middleware[i]
    /\ \A c \in Clients :
          /\ req[c].kind = "health" =>
                /\ req[c].trace = <<>>
                /\ req[c].auth = "unchecked"
                /\ req[c].calls = 0
                /\ req[c].ctx = "none"
                /\ Answered(c) =>
                      req[c].status \in {StatusOK, StatusInternalServerError}
          /\ HandlerRan(c) =>
                \A i \in 1..Len(args.middleware) :
                    \E j \in 1..Len(req[c].trace) :
                        req[c].trace[j] = args.middleware[i]

C18_Witness ==
    /\ \E i \in 1..Len(args.middleware) : args.middleware[i] = "BasicAuth"
    /\ \E c \in Clients :
          /\ Answered(c)
          /\ req[c].kind = "health"
          /\ req[c].verb = "PUT"
          /\ req[c].status = StatusOK

\* C12: a request is never held back by another one (it can be accepted
\* while idle and can finish while its method runs, whatever the other
\* request is doing), and a step of one request, its timeout and its
\* return included, changes nothing of any other request.
C12_HandlersIndependent ==
    /\ [](\A c \in Clients :
             /\ (req[c].pc = "idle" /\ serve_pc = "serving") => ENABLED Arrive(c)
             /\ req[c].pc = "calling" => ENABLED Return(c))
    /\ [][\A c \in Clients :
             req'[c] # req[c] => \A d \in Clients \ {c} : req'[d] = req[d]]_vars

C12_Witness ==
    \E c \in Clients, d \in Clients :
        /\ req[c].route # req[d].route
        /\ Answered(c) /\ req[c].calls = 1 /\ req[c].status = StatusOK
        /\ req[c].ctx = "cancelled"
        /\ req[d].pc = "calling" /\ req[d].ctx = "expired"

\* C17: in the revision that reverses inside applyMiddlewareTo, every
\* endpoint is registered with the middleware in the declared order,
\* outermost first (so the second and later endpoints have the chain of the
\* first), and a request that reaches a method has passed them in that order.
C17_EveryEndpointDeclaredOrder ==
    /\ \A p \in DOMAIN mux : mux[p].chain = args.middleware
    /\ \A c \in Clients :
          HandlerRan(c) => req[c].trace = args.middleware \o <<"handler">>

\* the document a decode step was given
DecodedDoc == IF codec.first = "decode" THEN codec.inDoc ELSE codec.doc

\* the step has been taken
Did(op) == \E i \in 1..Len(codec.done) : codec.done[i] = op

DecimalText(t) ==
    LET s == IF t # <<>> /\ Head(t) = "-" THEN Tail(t) ELSE t
    IN  /\ s # <<>>
        /\ \A i \in 1..Len(s) : \E j \in 1..10 : Digits[j] = s[i]
        /\ Len(s) > 1 => s[1] # "0"
        /\ s = <<"0">> => t = s

\* the value is built from scalars, messages and maps only: no nil pointer
\* in it, and an enum only under EnumsAsInts
Supported(v, enumsAsInts) ==
    /\ v.base # "untyped"
    /\ v.nilAt = 0
    /\ v.base = "enum" => enumsAsInts

C15_NilEncodesAsNull ==
    (codec.first = "encode" /\ Did("encode")
         /\ (codec.inValue.base = "untyped" \/ codec.inValue.nilAt # 0)) =>
        /\ codec.encodeErr = ""
        /\ codec.doc = NullDoc

\* 1986-03-10T05:05:05.000000005Z
TestInstantText ==
    <<"1", "9", "8", "6", "-", "0", "3", "-", "1", "0", "T", "0", "5", ":", "0",
      "5", ":", "0", "5", ".", "0", "0", "0", "0", "0", "0", "0", "0", "5", "Z">>

\* C16: each timestamp field of a message is encoded as one RFC 3339
\* string in UTC with nine fractional digits, the test's instant as
\* 1986-03-10T05:05:05.000000005Z, and the decoded message has the same
\* seconds and nanoseconds in both fields.
C16_TimestampRoundTrip ==
    (codec.inValue.base = "timestamps" /\ Did("encode")) =>
        /\ codec.encodeErr = ""
        /\ codec.doc.kind = "message"
        /\ DOMAIN codec.doc.strs = {"T1", "T2"}
        /\ \A f \in {"T1", "T2"} :
              /\ Len(codec.doc.strs[f]) = 30
              /\ codec.doc.strs[f][20] = "." /\ codec.doc.strs[f][30] = "Z"
              /\ (codec.inValue.msg[f \o ".Seconds"] = 510815105
                      /\ codec.inValue.msg[f \o ".Nanos"] = 5)
                     => codec.doc.strs[f] = TestInstantText
        /\ Did("decode") =>
              /\ codec.decodeErr = ""
              /\ codec.value = codec.inValue

C16_Witness ==
    /\ codec.done = <<"encode", "decode">>
    /\ codec.inValue.base = "timestamps"
    /\ codec.inValue.msg["T1.Seconds"] = 510815105
    /\ codec.inValue.msg["T1.Nanos"] = 5
    /\ codec.doc.strs["T1"] = TestInstantText
    /\ codec.doc.strs["T2"] = TestInstantText
    /\ codec.value = codec.inValue


====
